---- MODULE Spec2Model ----
(***************************************************************************)
(* Model of collector/__main__.py: the Event Registry collector.           *)
(*                                                                         *)
(* The program's persistent state is the file system (the output files and *)
(* the directories that hold them).  Each invocation builds a query from   *)
(* the caller's filters, optionally reads the resume date from the last    *)
(* line of the output file, asks the service for records and appends them  *)
(* to the output file.  An invocation's memory is `call`; it is discarded  *)
(* when the process ends, and only the file system is carried over.        *)
(***************************************************************************)
EXTENDS Integers, Sequences, FiniteSets, TLC

VARIABLES fs, dirs, call

vars == <<fs, dirs, call>>

(***************************************************************************)
(* Bounds of the model.                                                    *)
(***************************************************************************)
\* the largest number of records one query (or one direct save) delivers
MaxResults == 2
\* once the output files hold more than this many chunks together, no
\* further invocation is started (files are append-only and would grow for
\* ever)
MaxFileLen == 12
\* the largest number of labels one invocation passes in its filter lists
MaxList == 2
\* the largest number of lines of an identifiers file
MaxLines == 2
\* the largest number of interrupts that arrive in one run of the program
MaxInterrupts == 2

(***************************************************************************)
(* Python values.  Every value has the same three fields, so that values   *)
(* of different Python types can be compared.                              *)
(***************************************************************************)
PyNone == [t |-> "None", s |-> "", items |-> <<>>]
PyStr(s) == [t |-> "str", s |-> s, items |-> <<>>]
\* an arbitrary Python object that json cannot serialize
PyObject == [t |-> "object", s |-> "", items |-> <<>>]
\* a dict: its items are <<key, value>> pairs, in insertion order
PyDict(pairs) == [t |-> "dict", s |-> "", items |-> pairs]
PyList(elems) == [t |-> "list", s |-> "", items |-> elems]

(***************************************************************************)
(* Text.  A file's content is the sequence of chunks written to it; every  *)
(* chunk is one JSON token: a punctuation mark, a string literal or the    *)
(* newline the program writes after a record.                              *)
(***************************************************************************)
Punct(s) == [c |-> "punct", s |-> s]
StrLit(s) == [c |-> "str", s |-> s]
LBRACE == Punct("{")
RBRACE == Punct("}")
LBRACK == Punct("[")
RBRACK == Punct("]")
ITEM_SEP == Punct(", ")
KEY_SEP == Punct(": ")
NULL_LIT == Punct("null")
NEWLINE == Punct("\n")

(***************************************************************************)
(* json.dump(obj, file): the chunks the encoder yields, each written to    *)
(* the file as it is produced.  ok is FALSE when the encoder raises        *)
(* TypeError on a value it cannot serialize; the chunks yielded before     *)
(* that have been written already.                                         *)
(***************************************************************************)
RECURSIVE JsonDump(_)
RECURSIVE JsonDumpItems(_, _, _)
\* the members of a dict or the elements of a list, from position i on
JsonDumpItems(v, i, out) ==
    IF i > Len(v.items) THEN [ok |-> TRUE, out |-> out]
    ELSE LET sep == IF i > 1 THEN <<ITEM_SEP>> ELSE <<>>
             key == IF v.t = "dict"
                      THEN <<StrLit(v.items[i][1]), KEY_SEP>>
                      ELSE <<>>
             val == IF v.t = "dict" THEN v.items[i][2] ELSE v.items[i]
             enc == JsonDump(val)
             now == out \o sep \o key \o enc.out
         IN  IF enc.ok THEN JsonDumpItems(v, i + 1, now)
             ELSE [ok |-> FALSE, out |-> now]

JsonDump(v) ==
    CASE v.t = "str" -> [ok |-> TRUE, out |-> <<StrLit(v.s)>>]
      [] v.t = "None" -> [ok |-> TRUE, out |-> <<NULL_LIT>>]
      [] v.t = "dict" ->
            LET m == JsonDumpItems(v, 1, <<LBRACE>>)
            IN  IF m.ok THEN [ok |-> TRUE, out |-> m.out \o <<RBRACE>>] ELSE m
      [] v.t = "list" ->
            LET m == JsonDumpItems(v, 1, <<LBRACK>>)
            IN  IF m.ok THEN [ok |-> TRUE, out |-> m.out \o <<RBRACK>>] ELSE m
      [] OTHER -> [ok |-> FALSE, out |-> <<>>]

(***************************************************************************)
(* json.loads(text): a recursive-descent parse of the chunks.  ok is FALSE *)
(* when the decoder raises JSONDecodeError.                                *)
(***************************************************************************)
RECURSIVE SkipWs(_, _)
SkipWs(toks, i) ==
    IF i <= Len(toks) /\ toks[i] = NEWLINE THEN SkipWs(toks, i + 1) ELSE i

ParseFail == [ok |-> FALSE, next |-> 0, val |-> PyNone]

RECURSIVE ParseValue(_, _)
RECURSIVE ParseMembers(_, _, _)
RECURSIVE ParseElements(_, _, _)

\* after "{" or ", ": a "key": value member, then ", " or "}"
ParseMembers(toks, i0, acc) ==
    LET i == SkipWs(toks, i0)
        c == SkipWs(toks, i + 1)
    IN  IF i > Len(toks) \/ c > Len(toks) THEN ParseFail
        ELSE IF toks[i].c # "str" \/ toks[c] # KEY_SEP THEN ParseFail
        ELSE LET v == ParseValue(toks, c + 1)
                 e == SkipWs(toks, v.next)
                 now == Append(acc, <<toks[i].s, v.val>>)
             IN  IF ~v.ok \/ e > Len(toks) THEN ParseFail
                 ELSE IF toks[e] = RBRACE
                        THEN [ok |-> TRUE, next |-> e + 1, val |-> PyDict(now)]
                 ELSE IF toks[e] = ITEM_SEP THEN ParseMembers(toks, e + 1, now)
                 ELSE ParseFail

\* after "[" or ", ": a value, then ", " or "]"
ParseElements(toks, i0, acc) ==
    LET v == ParseValue(toks, i0)
        e == SkipWs(toks, v.next)
        now == Append(acc, v.val)
    IN  IF ~v.ok \/ e > Len(toks) THEN ParseFail
        ELSE IF toks[e] = RBRACK
               THEN [ok |-> TRUE, next |-> e + 1, val |-> PyList(now)]
        ELSE IF toks[e] = ITEM_SEP THEN ParseElements(toks, e + 1, now)
        ELSE ParseFail

ParseValue(toks, i0) ==
    LET i == SkipWs(toks, i0)
        j == SkipWs(toks, i + 1)
    IN  IF i > Len(toks) THEN ParseFail
        ELSE IF toks[i].c = "str"
               THEN [ok |-> TRUE, next |-> i + 1, val |-> PyStr(toks[i].s)]
        ELSE IF toks[i] = NULL_LIT
               THEN [ok |-> TRUE, next |-> i + 1, val |-> PyNone]
        ELSE IF toks[i] = LBRACE
               THEN IF j <= Len(toks) /\ toks[j] = RBRACE
                      THEN [ok |-> TRUE, next |-> j + 1, val |-> PyDict(<<>>)]
                      ELSE ParseMembers(toks, i + 1, <<>>)
        ELSE IF toks[i] = LBRACK
               THEN IF j <= Len(toks) /\ toks[j] = RBRACK
                      THEN [ok |-> TRUE, next |-> j + 1, val |-> PyList(<<>>)]
                      ELSE ParseElements(toks, i + 1, <<>>)
        ELSE ParseFail

\* one JSON document, with nothing but whitespace around it
JsonLoads(toks) ==
    LET v == ParseValue(toks, 1)
    IN  IF v.ok /\ SkipWs(toks, v.next) > Len(toks)
          THEN [ok |-> TRUE, val |-> v.val]
          ELSE [ok |-> FALSE, val |-> PyNone]

(***************************************************************************)
(* obj[key] with a string key: the value of the last member with that key  *)
(* of a dict (KeyError when there is none), TypeError for a list or a      *)
(* string.                                                                 *)
(***************************************************************************)
\* a faulty subscript that answers None where obj[key] raises (obj.get)
SubscriptOrNone(obj, key) ==
    IF obj.t # "dict" THEN [raised |-> "", val |-> PyNone]
    ELSE LET hits == {i \in 1..Len(obj.items) : obj.items[i][1] = key}
         IN  IF hits = {} THEN [raised |-> "", val |-> PyNone]
             ELSE [raised |-> "",
                   val |-> obj.items[CHOOSE i \in hits :
                                        \A j \in hits : j <= i][2]]

Subscript(obj, key) ==
    IF obj.t # "dict" THEN [raised |-> "TypeError", val |-> PyNone]
    ELSE LET hits == {i \in 1..Len(obj.items) : obj.items[i][1] = key}
         IN  IF hits = {} THEN [raised |-> "KeyError", val |-> PyNone]
             ELSE [raised |-> "",
                   val |-> obj.items[CHOOSE i \in hits :
                                        \A j \in hits : j <= i][2]]

(***************************************************************************)
(* file.readlines(): the lines of the text, each with the newline that     *)
(* ends it; a last line with no newline is a line too.                     *)
(***************************************************************************)
RECURSIVE ReadLines(_, _, _)
ReadLines(data, i, cur) ==
    IF i > Len(data) THEN (IF cur = <<>> THEN <<>> ELSE <<cur>>)
    ELSE IF data[i] = NEWLINE
           THEN <<Append(cur, NEWLINE)>> \o ReadLines(data, i + 1, <<>>)
    ELSE ReadLines(data, i + 1, Append(cur, data[i]))

(***************************************************************************)
(* Text that is no JSON token: what somebody else wrote into a file, such  *)
(* as a line of a plain identifiers file.  The text of a line is the text  *)
(* of its chunks one after the other, a string literal between quotes.     *)
(***************************************************************************)
Text(s) == [c |-> "text", s |-> s]

ChunkText(c) == IF c.c = "str" THEN "\"" \o c.s \o "\"" ELSE c.s

RECURSIVE LineText(_)
LineText(line) ==
    IF line = <<>> THEN "" ELSE ChunkText(line[1]) \o LineText(Tail(line))

(***************************************************************************)
(* str.strip(): the string without its leading and trailing whitespace.    *)
(***************************************************************************)
IsSpace(c) == c \in {" ", "\t", "\n", "\r"}

RECURSIVE LStrip(_)
LStrip(s) ==
    IF Len(s) > 0 /\ IsSpace(SubSeq(s, 1, 1)) THEN LStrip(SubSeq(s, 2, Len(s)))
    ELSE s

RECURSIVE RStrip(_)
RStrip(s) ==
    IF Len(s) > 0 /\ IsSpace(SubSeq(s, Len(s), Len(s)))
      THEN RStrip(SubSeq(s, 1, Len(s) - 1))
    ELSE s

\* a faulty strip that leaves the string as it is
unstripped(s) == s

strip(s) == RStrip(LStrip(s))

(***************************************************************************)
(* Paths and the file system.  A path is the sequence of its components    *)
(* (the text between os.sep); NoPath is the empty string, and stands for   *)
(* None as well (both are false in `if save_to_file`).  fs maps the        *)
(* normalized path of every existing regular file to its content, dirs is  *)
(* the set of existing directories below the working directory.            *)
(***************************************************************************)
NoPath == <<>>

Front(p) == SubSeq(p, 1, Len(p) - 1)

\* os.path.normpath for relative paths: "." and empty components dropped,
\* "x/.." collapsed, and "." for a path with nothing left
RECURSIVE NormFold(_, _, _)
NormFold(p, i, acc) ==
    IF i > Len(p) THEN acc
    ELSE IF p[i] \in {".", ""} THEN NormFold(p, i + 1, acc)
    ELSE IF p[i] = ".." /\ acc # <<>> /\ acc[Len(acc)] # ".."
           THEN NormFold(p, i + 1, Front(acc))
    ELSE NormFold(p, i + 1, Append(acc, p[i]))

Normpath(p) ==
    LET n == NormFold(p, 1, <<>>) IN IF n = <<>> THEN <<".">> ELSE n

\* os.path.isfile(path)
IsFile(files, path) == Normpath(path) \in DOMAIN files

\* os.path.exists(directory), for a normalized path; the empty string
\* names nothing
PathExists(files, ds, d) == d # <<>> /\ (d \in ds \/ d \in DOMAIN files)

\* os.makedirs(directory): the directory and every missing ancestor
Makedirs(files, ds, d) ==
    IF d = <<>> THEN [raised |-> "FileNotFoundError", dirs |-> ds]
    ELSE IF d \in ds \/ d \in DOMAIN files
           THEN [raised |-> "FileExistsError", dirs |-> ds]
    ELSE IF \E k \in 1..Len(d) : SubSeq(d, 1, k) \in DOMAIN files
           THEN [raised |-> "NotADirectoryError", dirs |-> ds]
    ELSE [raised |-> "",
          dirs |-> ds \cup {SubSeq(d, 1, k) : k \in 1..Len(d)}]

\* a faulty create_folder_directory: makedirs without the exists() test
MakedirsAlways(files, ds, path) ==
    Makedirs(files, ds, Front(Normpath(path)))

create_folder_directory(files, ds, path) ==
    LET normpath == Normpath(path)
        directory == Front(normpath)
    IN  IF ~PathExists(files, ds, directory)
          THEN Makedirs(files, ds, directory)
          ELSE [raised |-> "", dirs |-> ds]

\* a faulty open: mode 'w', which empties the file
OpenTruncate(files, ds, path) ==
    LET key == Normpath(path)
    IN  [raised |-> "",
         fs |-> [p \in DOMAIN files \cup {key} |->
                   IF p = key THEN <<>> ELSE files[p]]]

\* open(file_path, 'a'): the file is created when it does not exist, and
\* what it holds is kept
OpenAppend(files, ds, path) ==
    LET key == Normpath(path)
        parent == Front(key)
    IN  IF \E k \in 1..Len(parent) : SubSeq(parent, 1, k) \in DOMAIN files
          THEN [raised |-> "NotADirectoryError", fs |-> files]
        ELSE IF parent # <<>> /\ parent \notin ds
          THEN [raised |-> "FileNotFoundError", fs |-> files]
        ELSE IF key \in ds \/ key = <<".">>
          THEN [raised |-> "IsADirectoryError", fs |-> files]
        ELSE [raised |-> "",
              fs |-> [p \in DOMAIN files \cup {key} |->
                        IF p \in DOMAIN files THEN files[p] ELSE <<>>]]

(***************************************************************************)
(* The two serialization policies.  Each gives the text of the file after  *)
(* the save and the exception that escapes, "" when none does.             *)
(***************************************************************************)
save_as_array(data, articles) ==
    LET d == JsonDump(PyList(articles))
    IN  [data |-> data \o d.out,
         raised |-> IF d.ok THEN "" ELSE "TypeError"]

\* the loop of save_as_separate_line from record i on: the chunks of a
\* record reach the file as json.dump yields them, the newline follows only
\* when json.dump returns, and `except: continue` goes on to the next record
RECURSIVE SeparateLines(_, _, _)
SeparateLines(data, articles, i) ==
    IF i > Len(articles) THEN data
    ELSE LET d == JsonDump(articles[i])
         IN  SeparateLines(data \o d.out \o (IF d.ok THEN <<NEWLINE>> ELSE <<>>),
                           articles, i + 1)

save_as_separate_line(data, articles) ==
    [data |-> SeparateLines(data, articles, 1), raised |-> ""]

(***************************************************************************)
(* save_result_in_file(articles, file_path, save_format): the file system  *)
(* after the call and the exception that escapes it.                       *)
(***************************************************************************)
save_result_in_file(files, ds, articles, file_path, save_format) ==
    LET mk == create_folder_directory(files, ds, file_path)
        op == OpenAppend(files, mk.dirs, file_path)
        key == Normpath(file_path)
        sv == IF save_format = "array"
                THEN save_as_array(op.fs[key], articles)
                ELSE save_as_separate_line(op.fs[key], articles)
    IN  IF mk.raised # "" THEN [fs |-> files, dirs |-> ds, raised |-> mk.raised]
        ELSE IF op.raised # ""
          THEN [fs |-> files, dirs |-> mk.dirs, raised |-> op.raised]
        ELSE [fs |-> [op.fs EXCEPT ![key] = sv.data],
              dirs |-> mk.dirs, raised |-> sv.raised]

(***************************************************************************)
(* The remote service.  Its records are JSON objects decoded from the      *)
(* service's answers; the program looks at one field of them only, `date`  *)
(* of an article and `eventDate` of an event.  Dates are ISO strings, so   *)
(* their order is the order of the strings.                                *)
(***************************************************************************)
Dates == {"2023-05-01", "2023-05-02"}

DateRank(d) == IF d = "2023-05-01" THEN 1 ELSE 2

Article(d) == PyDict(<< <<"date", PyStr(d)>> >>)
Event(d) == PyDict(<< <<"eventDate", PyStr(d)>> >>)
\* a record that holds a value json cannot serialize; the service never
\* delivers one, a direct caller of save_result_in_file can
Unserializable(d) == PyDict(<< <<"date", PyStr(d)>>, <<"body", PyObject>> >>)

\* the date the service sorts and filters a record by
RecordDate(r) == r.items[1][2].s

\* all sequences over S of length at most n
SeqsUpTo(S, n) == UNION {[1..k -> S] : k \in 0..n}

(***************************************************************************)
(* q.execQuery(er, sortBy, sortByAsc, maxItems): the record sequences the  *)
(* service may deliver for a query.  Which records exist is the service's  *)
(* affair; what it delivers lies in the query's date range, is sorted as   *)
(* asked when sorted by date, and is at most maxItems long (-1: no cap).   *)
(***************************************************************************)
ServiceResults(q) ==
    LET make(d) == IF q.type = "events" THEN Event(d) ELSE Article(d)
        inRange(d) ==
            /\ q.dateStart.t = "str" => DateRank(d) >= DateRank(q.dateStart.s)
            /\ q.dateEnd.t = "str" => DateRank(d) <= DateRank(q.dateEnd.s)
        recs == {make(d) : d \in {x \in Dates : inRange(x)}}
        cap == IF q.maxItems >= 0 /\ q.maxItems < MaxResults
                 THEN q.maxItems ELSE MaxResults
        sorted(rs) ==
            \A i \in 1..(Len(rs) - 1) :
                IF q.sortByAsc
                  THEN DateRank(RecordDate(rs[i])) <= DateRank(RecordDate(rs[i + 1]))
                  ELSE DateRank(RecordDate(rs[i])) >= DateRank(RecordDate(rs[i + 1]))
    IN  {rs \in SeqsUpTo(recs, cap) : q.sortBy = "date" => sorted(rs)}

(***************************************************************************)
(* The handle execQuery returns is an iterator over the records of the     *)
(* answer: every record is handed out once, and what a loop has taken from *)
(* the iterator is not handed out again.                                   *)
(***************************************************************************)
ResultIter(rs) == [items |-> rs, pos |-> 1]
NoIter == ResultIter(<<>>)

\* the records the iterator has still to hand out
Remaining(it) == SubSeq(it.items, it.pos, Len(it.items))

\* the iterator after `for a in articles` ran to its end
Exhausted(it) == [it EXCEPT !.pos = Len(it.items) + 1]

(***************************************************************************)
(* Label lookups: er.getConceptUri(label) and its siblings.  The registry  *)
(* of the service knows some labels and answers None for the others.       *)
(***************************************************************************)
Labels == {"obama", "zzz"}
KnownLabels == {"obama"}

getConceptUri(k) == IF k \in KnownLabels THEN PyStr("concept/" \o k) ELSE PyNone
getCategoryUri(k) == IF k \in KnownLabels THEN PyStr("category/" \o k) ELSE PyNone
getSourceUri(k) == IF k \in KnownLabels THEN PyStr("source/" \o k) ELSE PyNone

\* URI(keyword, uri): a label and the identifier the service gave for it
URI(keyword, uri) == [keyword |-> keyword, uri |-> uri]

\* the labels of a list without the repetitions of a label
RECURSIVE WithoutRepeats(_)
WithoutRepeats(xs) ==
    IF xs = <<>> THEN <<>>
    ELSE LET front == WithoutRepeats(SubSeq(xs, 1, Len(xs) - 1))
             last == xs[Len(xs)]
         IN  IF \E i \in 1..(Len(xs) - 1) : xs[i] = last
               THEN front ELSE Append(front, last)

\* a faulty get_concepts that looks a repeated label up once
get_concepts_once(concepts) ==
    [i \in DOMAIN WithoutRepeats(concepts) |->
        URI(WithoutRepeats(concepts)[i], getConceptUri(WithoutRepeats(concepts)[i]))]

\* get_concepts / get_categories / get_sources: one lookup for every label
\* of the list, in the order of the list
get_concepts(concepts) ==
    [i \in DOMAIN concepts |-> URI(concepts[i], getConceptUri(concepts[i]))]

get_categories(categories) ==
    [i \in DOMAIN categories |-> URI(categories[i], getCategoryUri(categories[i]))]

get_sources(sources) ==
    [i \in DOMAIN sources |-> URI(sources[i], getSourceUri(sources[i]))]

\* the lookup calls behind a list of URI objects: the service function,
\* the label it was called with and what it answered
LookupCalls(name, uris) ==
    [i \in DOMAIN uris |-> <<name, uris[i].keyword, uris[i].uri>>]

(***************************************************************************)
(* Filter lists.  A list argument is None (given = FALSE) or a list of     *)
(* strings; `if keywords` is false for None and for the empty list.        *)
(***************************************************************************)
NoneList == [given |-> FALSE, items |-> <<>>]
ListOf(items) == [given |-> TRUE, items |-> items]
\* a faulty test that takes every list that was passed, also the empty one
IsGiven(l) == l.given
NonEmpty(l) == l.given /\ l.items # <<>>

NoFilters == [keywords |-> NoneList, concepts |-> NoneList,
              categories |-> NoneList, sources |-> NoneList,
              languages |-> NoneList]

\* ER.QueryItems.AND / ER.QueryItems.OR, and None for a filter left out
QueryItemsAND(items) == [op |-> "$and", items |-> items]
\* a faulty disjunction that builds a conjunction
QueryItemsORAsAnd(items) == [op |-> "$and", items |-> items]
QueryItemsOR(items) == [op |-> "$or", items |-> items]
NoClause == [op |-> "None", items |-> <<>>]

\* "setup the event registry parameters": the five clauses of the query
\* and the lookup calls made for them, in the order they are made
SetupParameters(f) ==
    LET concepts == get_concepts(f.concepts.items)
        categories == get_categories(f.categories.items)
        sources == get_sources(f.sources.items)
    IN  [keywords |-> IF NonEmpty(f.keywords)
                        THEN QueryItemsAND([i \in DOMAIN f.keywords.items |-> PyStr(f.keywords.items[i])])
                        ELSE NoClause,
         conceptUri |-> IF NonEmpty(f.concepts)
                          THEN QueryItemsAND([i \in DOMAIN concepts |-> concepts[i].uri])
                          ELSE NoClause,
         categoryUri |-> IF NonEmpty(f.categories)
                           THEN QueryItemsAND([i \in DOMAIN categories |-> categories[i].uri])
                           ELSE NoClause,
         sourceUri |-> IF NonEmpty(f.sources)
                         THEN QueryItemsOR([i \in DOMAIN sources |-> sources[i].uri])
                         ELSE NoClause,
         lang |-> IF NonEmpty(f.languages)
                    THEN QueryItemsOR([i \in DOMAIN f.languages.items |-> PyStr(f.languages.items[i])])
                    ELSE NoClause,
         lookups |->
             (IF NonEmpty(f.concepts)
                THEN LookupCalls("getConceptUri", concepts) ELSE <<>>)
             \o (IF NonEmpty(f.categories)
                   THEN LookupCalls("getCategoryUri", categories) ELSE <<>>)
             \o (IF NonEmpty(f.sources)
                   THEN LookupCalls("getSourceUri", sources) ELSE <<>>)]

(***************************************************************************)
(* "when saving to file check the last date and use it as start date":     *)
(* the date_start the query is built with, or the exception raised while   *)
(* looking for it.                                                         *)
(***************************************************************************)
\* a faulty resume lookup that reads the first line of the file
ResumeFirstLine(files, save_to_file, date_start, field) ==
    IF save_to_file # NoPath /\ IsFile(files, save_to_file)
      THEN LET lines == ReadLines(files[Normpath(save_to_file)], 1, <<>>)
           IN  IF Len(lines) > 0
                 THEN LET a == JsonLoads(lines[1])
                          g == Subscript(a.val, field)
                      IN  IF ~a.ok THEN [raised |-> "JSONDecodeError",
                                         date_start |-> date_start]
                          ELSE IF g.raised # ""
                                 THEN [raised |-> g.raised, date_start |-> date_start]
                          ELSE [raised |-> "", date_start |-> g.val]
                 ELSE [raised |-> "", date_start |-> date_start]
      ELSE [raised |-> "", date_start |-> date_start]

ResumeLookup(files, save_to_file, date_start, field) ==
    IF save_to_file # NoPath /\ IsFile(files, save_to_file)
      THEN LET lines == ReadLines(files[Normpath(save_to_file)], 1, <<>>)
           IN  IF Len(lines) > 0
                 THEN LET last_article == JsonLoads(lines[Len(lines)])
                          g == Subscript(last_article.val, field)
                      IN  IF ~last_article.ok
                            THEN [raised |-> "JSONDecodeError",
                                  date_start |-> date_start]
                          ELSE IF g.raised # ""
                            THEN [raised |-> g.raised, date_start |-> date_start]
                          ELSE [raised |-> "", date_start |-> g.val]
                 ELSE [raised |-> "", date_start |-> date_start]
      ELSE [raised |-> "", date_start |-> date_start]

\* get_articles resumes from the `date` of the last line
ArticlesDateStart(files, save_to_file, date_start) ==
    ResumeLookup(files, save_to_file, date_start, "date")

\* get_events resumes from the `eventDate` of the last line
EventsDateStart(files, save_to_file, date_start) ==
    ResumeLookup(files, save_to_file, date_start, "eventDate")

\* a faulty get_event_articles that resumes as get_articles does
EventArticlesResume(files, save_to_file, date_start) ==
    ResumeLookup(files, save_to_file, date_start, "date")

\* get_event_articles does not look at the file: the query is built with
\* the date_start it was given
EventArticlesDateStart(files, save_to_file, date_start) ==
    [raised |-> "", date_start |-> date_start]

(***************************************************************************)
(* The state of one invocation.                                            *)
(*   op            the operation called, "none" between invocations        *)
(*   date_start    the date_start the caller passed                        *)
(*   save_to_file, save_format   the save target the caller passed         *)
(*   pre           the target file as the invocation found it              *)
(*   lookups       the label lookups made, in order                        *)
(*   queried, query   whether a query was issued, and the query            *)
(*   records       the records the service delivered (or the caller gave)  *)
(*   returned      the iterator the operation returns, as the caller gets  *)
(*                 it                                                      *)
(*   raised        the exception that ended the invocation, "" if none     *)
(*   batch         what get_event_articles_from_file holds while it runs   *)
(*   cli           where the command-line program is, statement by         *)
(*                 statement, and how it ended                             *)
(***************************************************************************)
NoQuery == [type |-> "none", eventUri |-> "", keywords |-> NoClause,
            conceptUri |-> NoClause, categoryUri |-> NoClause,
            sourceUri |-> NoClause, dateStart |-> PyNone, dateEnd |-> PyNone,
            lang |-> NoClause, sortBy |-> "", sortByAsc |-> FALSE,
            maxItems |-> -1]

NoFile == [exists |-> FALSE, data |-> <<>>]

FileState(files, path) ==
    IF path # NoPath /\ IsFile(files, path)
      THEN [exists |-> TRUE, data |-> files[Normpath(path)]]
      ELSE NoFile

\* the memory of get_event_articles_from_file, see below
NoBatch == [pc |-> "", event_ids_file |-> NoPath, event_file_type |-> "",
            date_end |-> PyNone, sort_by |-> "", sort_by_asc |-> FALSE,
            max_items |-> -1, event_ids |-> <<>>, done |-> 0,
            event_articles |-> <<>>, log |-> <<>>, saved |-> <<>>,
            before |-> [fs |-> <<>>, dirs |-> {}]]

\* the position of the command-line program, see below
NoCli == [pc |-> "", action |-> "", exit |-> -1, interrupts |-> 0,
          at |-> "", event_ids |-> <<>>, event_id |-> "",
          date_start |-> PyNone, written |-> 0]

NoCall == [op |-> "none", filters |-> NoFilters, date_start |-> PyNone,
           save_to_file |-> NoPath, save_format |-> "None", pre |-> NoFile,
           lookups |-> <<>>, queried |-> FALSE, query |-> NoQuery,
           records |-> <<>>, returned |-> NoIter, raised |-> "",
           batch |-> NoBatch, cli |-> NoCli]

\* the chunks held by the files of S together
RECURSIVE TotalLen(_, _)
TotalLen(files, S) ==
    IF S = {} THEN 0
    ELSE LET p == CHOOSE x \in S : TRUE
         IN  Len(files[p]) + TotalLen(files, S \ {p})

\* invocations go on while the output files are within the bound
WithinBound == TotalLen(fs, DOMAIN fs) <= MaxFileLen

(***************************************************************************)
(* What get_articles, get_events and get_event_articles share: the query   *)
(* is built from the clauses and the effective date_start, executed, and   *)
(* its records are saved when a save target was given; the iterator the    *)
(* query gave is returned.  `look` is the outcome of the operation's       *)
(* resume lookup.  QueryAndSave is the set of the possible outcomes, one   *)
(* for every answer of the service.                                        *)
(***************************************************************************)
QueryAndSave(files, ds, type, event_id, look, f, date_end, sort_by, sort_by_asc, max_items, save_to_file, save_format) ==
    LET p == SetupParameters(f)
        q == [type |-> type, eventUri |-> event_id, keywords |-> p.keywords,
              conceptUri |-> p.conceptUri, categoryUri |-> p.categoryUri,
              sourceUri |-> p.sourceUri, dateStart |-> look.date_start,
              dateEnd |-> date_end, lang |-> p.lang, sortBy |-> sort_by,
              sortByAsc |-> sort_by_asc, maxItems |-> max_items]
        outcome(rs) ==
            LET articles == ResultIter(rs)
                sv == IF save_to_file # NoPath
                        THEN save_result_in_file(files, ds, Remaining(articles),
                                                 save_to_file, save_format)
                        ELSE [fs |-> files, dirs |-> ds, raised |-> ""]
            IN  [lookups |-> p.lookups, queried |-> TRUE, query |-> q,
                 records |-> rs,
                 returned |-> IF sv.raised # "" THEN NoIter
                              ELSE IF save_to_file # NoPath
                                     THEN Exhausted(articles)
                              ELSE articles,
                 raised |-> sv.raised, fs |-> sv.fs, dirs |-> sv.dirs]
    IN  IF look.raised # ""
          THEN {[lookups |-> p.lookups, queried |-> FALSE, query |-> NoQuery,
                 records |-> <<>>, returned |-> NoIter, raised |-> look.raised,
                 fs |-> files, dirs |-> ds]}
          ELSE {outcome(rs) : rs \in ServiceResults(q)}

Collect(op, type, event_id, look, f, date_start, date_end, sort_by, sort_by_asc, max_items, save_to_file, save_format) ==
    /\ call.op = "none"
    /\ WithinBound
    /\ \E o \in QueryAndSave(fs, dirs, type, event_id, look, f, date_end, sort_by, sort_by_asc, max_items, save_to_file, save_format) :
          /\ fs' = o.fs
          /\ dirs' = o.dirs
          /\ call' = [NoCall EXCEPT !.op = op, !.filters = f,
                                    !.date_start = date_start,
                                    !.save_to_file = save_to_file,
                                    !.save_format = save_format,
                                    !.pre = FileState(fs, save_to_file),
                                    !.lookups = o.lookups,
                                    !.queried = o.queried,
                                    !.query = o.query,
                                    !.records = o.records,
                                    !.returned = o.returned,
                                    !.raised = o.raised]

get_articles(f, date_start, date_end, sort_by, sort_by_asc, max_items, save_to_file, save_format) ==
    Collect("get_articles", "articles", "",
            ArticlesDateStart(fs, save_to_file, date_start),
            f, date_start, date_end, sort_by, sort_by_asc, max_items,
            save_to_file, save_format)

get_events(f, date_start, date_end, sort_by, sort_by_asc, max_items, save_to_file, save_format) ==
    Collect("get_events", "events", "",
            EventsDateStart(fs, save_to_file, date_start),
            f, date_start, date_end, sort_by, sort_by_asc, max_items,
            save_to_file, save_format)

get_event_articles(event_id, f, date_start, date_end, sort_by, sort_by_asc, max_items, save_to_file, save_format) ==
    Collect("get_event_articles", "eventArticles", event_id,
            EventArticlesDateStart(fs, save_to_file, date_start),
            f, date_start, date_end, sort_by, sort_by_asc, max_items,
            save_to_file, save_format)

\* a direct call of save_result_in_file, with any records
SaveResult(articles, file_path, save_format) ==
    LET sv == save_result_in_file(fs, dirs, articles, file_path, save_format)
    IN  /\ call.op = "none"
        /\ WithinBound
        /\ fs' = sv.fs
        /\ dirs' = sv.dirs
        /\ call' = [NoCall EXCEPT !.op = "save_result_in_file",
                                  !.save_to_file = file_path,
                                  !.save_format = save_format,
                                  !.pre = FileState(fs, file_path),
                                  !.records = articles,
                                  !.raised = sv.raised]

\* the invocation is over: what it held in memory is gone, the files stay
Finish ==
    /\ call.op # "none"
    /\ call' = NoCall
    /\ UNCHANGED <<fs, dirs>>

(***************************************************************************)
(* get_event_articles_from_file.  The identifiers are read from the file   *)
(* first, all of them; then the events are taken one after the other, each *)
(* with one get_event_articles call that saves to the event's own file;    *)
(* at the end the list of the (event_id, articles) pairs is returned.      *)
(*   pc              "loop" in the for loop, "returned", "raised"          *)
(*   event_ids       the identifiers read from the file                    *)
(*   done            the number of events the loop is through with         *)
(*   event_articles  the list the operation builds and returns             *)
(*   log             what happened, in order: the queries issued, the      *)
(*                   saves made, the exception raised                      *)
(*   saved           for every save made, the file and what it held after  *)
(*   before          the file system as the operation found it             *)
(***************************************************************************)
\* str.split(os.sep): the components of a path given as a string
RECURSIVE SplitPath(_, _)
SplitPath(s, cur) ==
    IF Len(s) = 0 THEN <<cur>>
    ELSE IF SubSeq(s, 1, 1) = "/"
           THEN <<cur>> \o SplitPath(SubSeq(s, 2, Len(s)), "")
    ELSE SplitPath(SubSeq(s, 2, Len(s)), cur \o SubSeq(s, 1, 1))

\* "{}/{}.json".format(save_to_folder, event_id) if save_to_folder else None
EventPath(save_to_folder, event_id) ==
    IF save_to_folder # NoPath
      THEN save_to_folder \o SplitPath(event_id \o ".json", "")
      ELSE NoPath

\* a faulty extraction that leaves out the lines it cannot use
RECURSIVE ExtractUsableEventIds(_, _, _, _)
ExtractUsableEventIds(lines, event_file_type, i, event_ids) ==
    IF i > Len(lines) THEN [raised |-> "", event_ids |-> event_ids]
    ELSE IF event_file_type = "events"
      THEN LET line == JsonLoads(lines[i])
               uri == Subscript(line.val, "uri")
           IN  IF ~line.ok \/ uri.raised # "" \/ uri.val.t # "str"
                 THEN ExtractUsableEventIds(lines, event_file_type, i + 1, event_ids)
               ELSE ExtractUsableEventIds(lines, event_file_type, i + 1,
                                          Append(event_ids, strip(uri.val.s)))
    ELSE ExtractUsableEventIds(lines, event_file_type, i + 1,
                               Append(event_ids, strip(LineText(lines[i]))))

\* the two extraction loops, from line i on: json.loads(line)['uri'].strip()
\* for an 'events' file, line.strip() for any other
RECURSIVE ExtractEventIds(_, _, _, _)
ExtractEventIds(lines, event_file_type, i, event_ids) ==
    IF i > Len(lines) THEN [raised |-> "", event_ids |-> event_ids]
    ELSE IF event_file_type = "events"
      THEN LET line == JsonLoads(lines[i])
               uri == Subscript(line.val, "uri")
           IN  IF ~line.ok
                 THEN [raised |-> "JSONDecodeError", event_ids |-> event_ids]
               ELSE IF uri.raised # ""
                 THEN [raised |-> uri.raised, event_ids |-> event_ids]
               ELSE IF uri.val.t # "str"
                 THEN [raised |-> "AttributeError", event_ids |-> event_ids]
               ELSE ExtractEventIds(lines, event_file_type, i + 1,
                                    Append(event_ids, strip(uri.val.s)))
    ELSE ExtractEventIds(lines, event_file_type, i + 1,
                         Append(event_ids, strip(LineText(lines[i]))))

\* a faulty reading that takes a missing or empty file for no identifiers
ReadEventIdsUnchecked(files, event_ids_file, event_file_type) ==
    IF ~(event_ids_file # NoPath /\ IsFile(files, event_ids_file))
      THEN [raised |-> "", event_ids |-> <<>>]
    ELSE ExtractEventIds(ReadLines(files[Normpath(event_ids_file)], 1, <<>>),
                         event_file_type, 1, <<>>)

\* "check if the event ids file exists" and "open the file with the given
\* event ids": the identifiers, or the exception raised on the way
ReadEventIds(files, event_ids_file, event_file_type) ==
    IF ~(event_ids_file # NoPath /\ IsFile(files, event_ids_file))
      THEN [raised |-> "Exception", event_ids |-> <<>>]
    ELSE LET lines == ReadLines(files[Normpath(event_ids_file)], 1, <<>>)
         IN  IF Len(lines) = 0
               THEN [raised |-> "Exception", event_ids |-> <<>>]
             ELSE ExtractEventIds(lines, event_file_type, 1, <<>>)

\* the first part of the operation, up to the for loop
get_event_articles_from_file(event_ids_file, event_file_type, f, date_start, date_end, sort_by, sort_by_asc, max_items, save_to_folder, save_format) ==
    LET r == ReadEventIds(fs, event_ids_file, event_file_type)
    IN  /\ call.op = "none"
        /\ call' = [NoCall EXCEPT
                      !.op = "get_event_articles_from_file",
                      !.filters = f,
                      !.date_start = date_start,
                      !.save_to_file = save_to_folder,
                      !.save_format = save_format,
                      !.pre = FileState(fs, event_ids_file),
                      !.raised = r.raised,
                      !.batch = [NoBatch EXCEPT
                                   !.pc = IF r.raised = "" THEN "loop" ELSE "raised",
                                   !.event_ids_file = event_ids_file,
                                   !.event_file_type = event_file_type,
                                   !.date_end = date_end,
                                   !.sort_by = sort_by,
                                   !.sort_by_asc = sort_by_asc,
                                   !.max_items = max_items,
                                   !.event_ids = r.event_ids,
                                   !.before = [fs |-> fs, dirs |-> dirs]]]
        /\ UNCHANGED <<fs, dirs>>

\* a faulty loop that takes the events from the end of the list
NextEventFromEnd(event_ids, done) == event_ids[Len(event_ids) - done]

\* `for event_id in event_ids`: the event taken after `done` events
NextEvent(event_ids, done) == event_ids[done + 1]

LogEntry(e, event_id, exc) == [e |-> e, event_id |-> event_id, exc |-> exc]

\* what one turn of the loop adds to the log
TurnLog(event_id, event_path, o) ==
    (IF o.queried THEN <<LogEntry("query", event_id, "")>> ELSE <<>>)
    \o (IF o.raised # "" THEN <<LogEntry("raise", event_id, o.raised)>>
        ELSE IF event_path # NoPath THEN <<LogEntry("save", event_id, "")>>
        ELSE <<>>)

\* a faulty loop that goes on with the next event when one fails
AfterEventIsolated(c, event_id, event_path, o) ==
    [c EXCEPT !.lookups = @ \o o.lookups,
              !.batch.done = @ + 1,
              !.batch.log = @ \o TurnLog(event_id, event_path, o),
              !.batch.event_articles =
                  Append(@, [event_id |-> event_id, articles |-> o.returned])]

\* the memory of the operation after the turn for event_id, whose
\* get_event_articles call had the outcome o: an exception leaves the
\* operation, otherwise the pair is appended to event_articles
AfterEvent(c, event_id, event_path, o) ==
    IF o.raised # ""
      THEN [c EXCEPT !.lookups = @ \o o.lookups,
                     !.raised = o.raised,
                     !.batch.pc = "raised",
                     !.batch.log = @ \o TurnLog(event_id, event_path, o)]
      ELSE [c EXCEPT !.lookups = @ \o o.lookups,
                     !.batch.done = @ + 1,
                     !.batch.log = @ \o TurnLog(event_id, event_path, o),
                     !.batch.event_articles =
                         Append(@, [event_id |-> event_id, articles |-> o.returned]),
                     !.batch.saved =
                         IF event_path # NoPath
                           THEN Append(@, [path |-> Normpath(event_path),
                                           data |-> o.fs[Normpath(event_path)]])
                           ELSE @]

\* one turn of the for loop: the event's path, its get_event_articles call
ForEachEvent ==
    /\ call.op = "get_event_articles_from_file"
    /\ call.batch.pc = "loop"
    /\ call.batch.done < Len(call.batch.event_ids)
    /\ LET event_id == NextEvent(call.batch.event_ids, call.batch.done)
           event_path == EventPath(call.save_to_file, event_id)
       IN  \E o \in QueryAndSave(fs, dirs, "eventArticles", event_id, EventArticlesDateStart(fs, event_path, call.date_start), call.filters, call.batch.date_end, call.batch.sort_by, call.batch.sort_by_asc, call.batch.max_items, event_path, call.save_format) :
              /\ fs' = o.fs
              /\ dirs' = o.dirs
              /\ call' = AfterEvent(call, event_id, event_path, o)

\* "return the list of event articles"
ReturnEventArticles ==
    /\ call.op = "get_event_articles_from_file"
    /\ call.batch.pc = "loop"
    /\ call.batch.done = Len(call.batch.event_ids)
    /\ call' = [call EXCEPT !.batch.pc = "returned"]
    /\ UNCHANGED <<fs, dirs>>

(***************************************************************************)
(* Inputs.                                                                 *)
(***************************************************************************)
DateArgs == {PyNone} \cup {PyStr(d) : d \in Dates}
SortFields == {"date", "rel"}
SaveFormats == {"None", "array"}
OutFile == <<"data", "articles.json">>
SaveTargets == {NoPath, <<"articles.json">>, OutFile}
EventIds == {"e-1"}

\* the file system before the first invocation: no output file, no
\* directory
Init ==
    /\ fs = <<>>
    /\ dirs = {}
    /\ call = NoCall

(***************************************************************************)
(* Spec: repeated invocations of the three query operations against one    *)
(* output file.                                                            *)
(***************************************************************************)
GetArticles ==
    /\ call.op = "none"
    /\ \E ds \in DateArgs, sb \in SortFields, asc \in BOOLEAN,
       stf \in SaveTargets, fmt \in SaveFormats :
        get_articles(NoFilters, ds, PyNone, sb, asc, -1, stf, fmt)

GetEvents ==
    /\ call.op = "none"
    /\ \E ds \in DateArgs, sb \in SortFields, asc \in BOOLEAN,
       stf \in SaveTargets, fmt \in SaveFormats :
        get_events(NoFilters, ds, PyNone, sb, asc, -1, stf, fmt)

GetEventArticles ==
    /\ call.op = "none"
    /\ \E id \in EventIds, ds \in DateArgs, sb \in SortFields, asc \in BOOLEAN,
       stf \in SaveTargets, fmt \in SaveFormats :
        get_event_articles(id, NoFilters, ds, PyNone, sb, asc, -1, stf, fmt)

Next == GetArticles \/ GetEvents \/ GetEventArticles \/ Finish

Spec == Init /\ [][Next]_vars

(***************************************************************************)
(* SpecSave: direct calls of save_result_in_file, with records that may    *)
(* fail to serialize and with target paths of every shape.                 *)
(***************************************************************************)
SaveRecords == {Article(d) : d \in Dates} \cup {Unserializable("2023-05-01")}

SavePaths == {<<"articles.json">>,
              <<".", "articles.json">>,
              <<"data", "articles.json">>,
              <<"data", "2023", "..", "articles.json">>,
              <<"data", "2023", "articles.json">>}

SaveResultInFile ==
    /\ call.op = "none"
    /\ \E articles \in SeqsUpTo(SaveRecords, MaxResults),
       file_path \in SavePaths, fmt \in SaveFormats :
        SaveResult(articles, file_path, fmt)

NextSave == SaveResultInFile \/ Finish

SpecSave == Init /\ [][NextSave]_vars

(***************************************************************************)
(* SpecQuery: one invocation of a query operation with every combination   *)
(* of filter lists, and no save target.                                    *)
(***************************************************************************)
FilterLists == {NoneList} \cup {ListOf(l) : l \in SeqsUpTo(Labels, MaxList)}

FilterSets ==
    {f \in [keywords : FilterLists, concepts : FilterLists,
            categories : FilterLists, sources : FilterLists,
            languages : FilterLists] :
        Len(f.keywords.items) + Len(f.concepts.items) + Len(f.categories.items)
          + Len(f.sources.items) + Len(f.languages.items) <= MaxList}

QueryArticles ==
    /\ call.op = "none"
    /\ \E f \in FilterSets, de \in DateArgs :
        get_articles(f, PyNone, de, "date", FALSE, 1, NoPath, "None")

QueryEvents ==
    /\ call.op = "none"
    /\ \E f \in FilterSets, de \in DateArgs :
        get_events(f, PyNone, de, "date", FALSE, 1, NoPath, "None")

QueryEventArticles ==
    /\ call.op = "none"
    /\ \E id \in EventIds, f \in FilterSets, de \in DateArgs :
        get_event_articles(id, f, PyNone, de, "rel", TRUE, 1, NoPath, "None")

NextQuery == QueryArticles \/ QueryEvents \/ QueryEventArticles

SpecQuery == Init /\ [][NextQuery]_vars

(***************************************************************************)
(* SpecBatch: one invocation of get_event_articles_from_file on an         *)
(* identifiers file of any content, of either type, with and without an    *)
(* output folder.                                                          *)
(***************************************************************************)
IdsFile == <<"events.json">>

\* an event object as get_events saves it, with the uri the service gave
EventLine(uri) ==
    JsonDump(PyDict(<< <<"uri", PyStr(uri)>>,
                       <<"eventDate", PyStr("2023-05-01")>> >>)).out
      \o <<NEWLINE>>

\* the lines an identifiers file may hold: event objects and plain
\* identifiers, also an identifier with blanks around it and one that
\* names a path below the file of e-1; an event object without uri
IdsLines == {EventLine("e-1"), EventLine(" e-2 "),
             JsonDump(Event("2023-05-01")).out \o <<NEWLINE>>,
             <<Text("e-1"), NEWLINE>>,
             <<Text(" e-2 "), NEWLINE>>,
             <<Text("e-1.json/x"), NEWLINE>>}

RECURSIVE Flatten(_)
Flatten(ls) == IF ls = <<>> THEN <<>> ELSE ls[1] \o Flatten(Tail(ls))

IdsContents == {Flatten(ls) : ls \in SeqsUpTo(IdsLines, MaxLines)}

IdsFileArgs == {NoPath, IdsFile, <<"missing.json">>}
EventFileTypes == {"events", "plain", "None"}
SaveFolders == {NoPath, <<"out">>, <<".">>}

\* the identifiers file is there before the invocation, or it is not
InitBatch ==
    /\ fs \in {<<>>} \cup {[p \in {IdsFile} |-> c] : c \in IdsContents}
    /\ dirs = {}
    /\ call = NoCall

GetEventArticlesFromFile ==
    /\ call.op = "none"
    /\ \E file \in IdsFileArgs, type \in EventFileTypes,
          folder \in SaveFolders, fmt \in SaveFormats :
        get_event_articles_from_file(file, type, NoFilters, PyNone, PyNone, "date", FALSE, 1, folder, fmt)

NextBatch == GetEventArticlesFromFile \/ ForEachEvent \/ ReturnEventArticles

SpecBatch == InitBatch /\ [][NextBatch]_vars

(***************************************************************************)
(* SpecCLI: one run of the command-line program, statement by statement,   *)
(* with a KeyboardInterrupt that may arrive at any statement.              *)
(*   pc          the statement the program is at:                          *)
(*                 "argparser"   building the argument parser (no try)     *)
(*                 "parse_args"  the first statements of the try block     *)
(*                 "read_ids"    reading the identifiers file              *)
(*                 "lookups"     setting up the query parameters           *)
(*                 "resume"      the resume lookup                         *)
(*                 "query"       execQuery                                 *)
(*                 "open"        create_folder_directory and open          *)
(*                 "write"       the loop (or the dump) that writes        *)
(*                 "return"      the operation returns                     *)
(*                 "exited"      the process has ended                     *)
(*   action      args.action                                               *)
(*   exit        the exit status, -1 while the process runs                *)
(*   interrupts  the KeyboardInterrupts that have arrived                  *)
(*   at          where the last of them arrived ("try": inside the try     *)
(*               block of save_as_separate_line)                           *)
(*   event_id, event_ids   the event at hand, the events still to do       *)
(*   date_start  the date_start the query is built with                    *)
(*   written     the records the writing loop is through with              *)
(***************************************************************************)
InMain(pc) == call.op = "__main__" /\ call.cli.pc = pc

\* the process ends with the exit status, exc being the exception that
\* escaped ("" when none did)
Exit(c, status, exc) ==
    [c EXCEPT !.raised = exc, !.cli.pc = "exited", !.cli.exit = status]

\* the file the running operation saves to
CliTarget ==
    IF call.cli.action = "event_articles_from_file"
      THEN EventPath(call.save_to_file, call.cli.event_id)
      ELSE call.save_to_file

RunMain ==
    /\ call.op = "none"
    /\ call' = [NoCall EXCEPT !.op = "__main__", !.cli.pc = "argparser"]
    /\ UNCHANGED <<fs, dirs>>

BuildArgparser ==
    /\ InMain("argparser")
    /\ call' = [call EXCEPT !.cli.pc = "parse_args"]
    /\ UNCHANGED <<fs, dirs>>

CliActions == {"articles", "events", "event_articles", "event_articles_from_file"}

\* parse_args up to the dispatch on args.action: no api_key raises, and
\* so does reading args.action when no command was given
ParseArgs(api_key, action, f, save_to_file, save_format) ==
    /\ InMain("parse_args")
    /\ call' = IF ~api_key THEN Exit(call, 1, "Exception")
               ELSE IF action \notin CliActions
                 THEN Exit(call, 1, "AttributeError")
               ELSE [call EXCEPT
                       !.filters = f,
                       !.save_to_file = save_to_file,
                       !.save_format = save_format,
                       !.cli.action = action,
                       !.cli.event_id = IF action = "event_articles"
                                          THEN "e-1" ELSE "",
                       !.cli.pc = IF action = "event_articles_from_file"
                                    THEN "read_ids" ELSE "lookups"]
    /\ UNCHANGED <<fs, dirs>>

\* get_event_articles_from_file up to its loop
ReadIds(event_ids_file, event_file_type) ==
    LET r == ReadEventIds(fs, event_ids_file, event_file_type)
    IN  /\ InMain("read_ids")
        /\ call' = IF r.raised # "" THEN Exit(call, 1, r.raised)
                   ELSE [call EXCEPT !.cli.event_id = Head(r.event_ids),
                                     !.cli.event_ids = Tail(r.event_ids),
                                     !.cli.pc = "lookups"]
        /\ UNCHANGED <<fs, dirs>>

Lookups ==
    /\ InMain("lookups")
    /\ call' = [call EXCEPT !.lookups = @ \o SetupParameters(call.filters).lookups,
                            !.cli.pc = "resume"]
    /\ UNCHANGED <<fs, dirs>>

Resume ==
    LET look == CASE call.cli.action = "articles" ->
                       ArticlesDateStart(fs, CliTarget, call.date_start)
                  [] call.cli.action = "events" ->
                       EventsDateStart(fs, CliTarget, call.date_start)
                  [] OTHER ->
                       EventArticlesDateStart(fs, CliTarget, call.date_start)
    IN  /\ InMain("resume")
        /\ call' = IF look.raised # "" THEN Exit(call, 1, look.raised)
                   ELSE [call EXCEPT !.cli.date_start = look.date_start,
                                     !.cli.pc = "query"]
        /\ UNCHANGED <<fs, dirs>>

Query ==
    LET p == SetupParameters(call.filters)
        q == [type |-> CASE call.cli.action = "articles" -> "articles"
                         [] call.cli.action = "events" -> "events"
                         [] OTHER -> "eventArticles",
              eventUri |-> call.cli.event_id, keywords |-> p.keywords,
              conceptUri |-> p.conceptUri, categoryUri |-> p.categoryUri,
              sourceUri |-> p.sourceUri, dateStart |-> call.cli.date_start,
              dateEnd |-> PyNone, lang |-> p.lang, sortBy |-> "date",
              sortByAsc |-> TRUE, maxItems |-> -1]
    IN  /\ InMain("query")
        /\ \E rs \in ServiceResults(q) :
              call' = [call EXCEPT !.queried = TRUE, !.query = q,
                                   !.records = rs,
                                   !.cli.written = 0,
                                   !.cli.pc = IF CliTarget # NoPath
                                                THEN "open" ELSE "return"]
        /\ UNCHANGED <<fs, dirs>>

\* save_result_in_file up to the open
OpenTarget ==
    LET mk == create_folder_directory(fs, dirs, CliTarget)
        op == OpenAppend(fs, mk.dirs, CliTarget)
    IN  /\ InMain("open")
        /\ IF mk.raised # ""
             THEN call' = Exit(call, 1, mk.raised) /\ UNCHANGED <<fs, dirs>>
           ELSE IF op.raised # ""
             THEN call' = Exit(call, 1, op.raised) /\ dirs' = mk.dirs /\ fs' = fs
           ELSE /\ call' = [call EXCEPT !.cli.pc = "write"]
                /\ dirs' = mk.dirs
                /\ fs' = op.fs

\* save_as_array in one piece, save_as_separate_line one record at a time
WriteRecords ==
    LET key == Normpath(CliTarget)
        k == call.cli.written + 1
        array == save_as_array(fs[key], call.records)
        d == JsonDump(call.records[k])
    IN  /\ InMain("write")
        /\ UNCHANGED dirs
        /\ IF call.save_format = "array"
             THEN /\ fs' = [fs EXCEPT ![key] = array.data]
                  /\ call' = IF array.raised # "" THEN Exit(call, 1, array.raised)
                             ELSE [call EXCEPT !.cli.pc = "return"]
           ELSE IF k <= Len(call.records)
             THEN /\ fs' = [fs EXCEPT ![key] = @ \o d.out \o
                                 (IF d.ok THEN <<NEWLINE>> ELSE <<>>)]
                  /\ call' = [call EXCEPT !.cli.written = k]
           ELSE /\ fs' = fs
                /\ call' = [call EXCEPT !.cli.pc = "return"]

\* the operation returns: the next event of get_event_articles_from_file,
\* or the end of the try block and of the program
OperationReturns ==
    /\ InMain("return")
    /\ call' = IF call.cli.event_ids # <<>>
                 THEN [call EXCEPT !.cli.event_id = Head(call.cli.event_ids),
                                   !.cli.event_ids = Tail(call.cli.event_ids),
                                   !.cli.pc = "lookups"]
                 ELSE Exit(call, 0, "")
    /\ UNCHANGED <<fs, dirs>>

\* a KeyboardInterrupt arrives at the statement the program is at.  While
\* the parser is built no handler is in place and the interrupt ends the
\* process; inside the try block of save_as_separate_line the bare
\* `except: continue` takes it, what json.dump has written of the record
\* stays, and the loop goes on; everywhere else the handler of the main
\* block takes it and leaves with os._exit(0).
KeyboardInterrupt(in_try) ==
    LET pc == call.cli.pc
        c == [call EXCEPT !.cli.interrupts = @ + 1,
                          !.cli.at = IF in_try THEN "try" ELSE pc]
        key == Normpath(CliTarget)
        k == call.cli.written + 1
    IN  /\ call.op = "__main__"
        /\ pc # "exited"
        /\ call.cli.interrupts < MaxInterrupts
        /\ UNCHANGED dirs
        /\ IF pc = "argparser"
             THEN /\ ~in_try
                  /\ call' = Exit(c, 1, "KeyboardInterrupt")
                  /\ fs' = fs
           ELSE IF pc = "write" /\ call.save_format = "array"
             THEN /\ ~in_try
                  /\ \E j \in 0..Len(JsonDump(PyList(call.records)).out) :
                        fs' = [fs EXCEPT ![key] = @ \o
                                 SubSeq(JsonDump(PyList(call.records)).out, 1, j)]
                  /\ call' = Exit(c, 0, "")
           ELSE IF in_try
             THEN /\ pc = "write"
                  /\ k <= Len(call.records)
                  /\ \E j \in 0..Len(JsonDump(call.records[k]).out) :
                        fs' = [fs EXCEPT ![key] = @ \o
                                 SubSeq(JsonDump(call.records[k]).out, 1, j)]
                  /\ call' = [c EXCEPT !.cli.written = k]
           ELSE /\ call' = Exit(c, 0, "")
                /\ fs' = fs

CliFilters == {NoFilters, [NoFilters EXCEPT !.concepts = ListOf(<<"obama">>)]}
CliTargets == {NoPath, OutFile}

\* what the program finds: nothing, the output file of an earlier run, or
\* an identifiers file
CliFiles ==
    {[fs |-> <<>>, dirs |-> {}],
     [fs |-> [p \in {OutFile} |-> JsonDump(Article("2023-05-01")).out \o <<NEWLINE>>],
      dirs |-> {Front(OutFile)}],
     [fs |-> [p \in {IdsFile} |-> <<Text("e-1"), NEWLINE, Text("e-2"), NEWLINE>>],
      dirs |-> {}]}

InitCLI ==
    /\ \E s \in CliFiles : fs = s.fs /\ dirs = s.dirs
    /\ call = NoCall

MainParseArgs ==
    /\ InMain("parse_args")
    /\ \E api_key \in BOOLEAN, action \in CliActions \cup {""}, f \in CliFilters,
          stf \in CliTargets, fmt \in SaveFormats :
        ParseArgs(api_key, action, f, stf, fmt)

MainReadIds ==
    /\ InMain("read_ids")
    /\ \E file \in {NoPath, IdsFile}, type \in {"events", "plain"} :
        ReadIds(file, type)

Interrupt ==
    /\ call.op = "__main__"
    /\ \E in_try \in BOOLEAN : KeyboardInterrupt(in_try)

NextCLI ==
    \/ RunMain
    \/ BuildArgparser
    \/ MainParseArgs
    \/ MainReadIds
    \/ Lookups
    \/ Resume
    \/ Query
    \/ OpenTarget
    \/ WriteRecords
    \/ OperationReturns
    \/ Interrupt

SpecCLI == InitCLI /\ [][NextCLI]_vars

(***************************************************************************)
(* Properties.                                                             *)
(***************************************************************************)
IsPrefix(a, b) == Len(a) <= Len(b) /\ SubSeq(b, 1, Len(a)) = a

\* the target file of the current invocation, as it is now
Now == FileState(fs, call.save_to_file)

PreLines == ReadLines(call.pre.data, 1, <<>>)
NowLines == ReadLines(Now.data, 1, <<>>)

\* the field a query operation resumes from
DateField == IF call.op = "get_events" THEN "eventDate" ELSE "date"

\* line l is a JSON object with field f
HasField(l, f) ==
    /\ JsonLoads(l).ok
    /\ JsonLoads(l).val.t = "dict"
    /\ Subscript(JsonLoads(l).val, f).raised = ""

FieldOf(l, f) == Subscript(JsonLoads(l).val, f).val

Serializable(r) == JsonDump(r).ok

\* the lines a sequence of records is written as
RECURSIVE LinesOf(_)
LinesOf(rs) ==
    IF rs = <<>> THEN <<>>
    ELSE JsonDump(rs[1]).out \o <<NEWLINE>> \o LinesOf(Tail(rs))

(***************************************************************************)
(* C1: when get_articles (get_events) is called with a save target that is *)
(* an existing file with at least one line, the dateStart of the query it  *)
(* issues is the `date` (`eventDate`) field of the JSON object on the last *)
(* line of the file, whatever date_start the caller passed; when the file  *)
(* does not exist or has no lines, dateStart is the caller's date_start.   *)
(***************************************************************************)
C1_ResumeFromLastLine ==
    (call.op \in {"get_articles", "get_events"} /\ call.queried) =>
        IF call.pre.exists /\ PreLines # <<>>
          THEN /\ HasField(PreLines[Len(PreLines)], DateField)
               /\ call.query.dateStart = FieldOf(PreLines[Len(PreLines)], DateField)
          ELSE call.query.dateStart = call.date_start

\* get_articles replaced an explicit date_start by the date of the last of
\* several lines, which differs from the date of the first line
C1_Witness ==
    /\ call.op = "get_articles"
    /\ call.queried
    /\ Len(PreLines) >= 2
    /\ call.date_start.t = "str"
    /\ call.query.dateStart # call.date_start
    /\ call.query.dateStart = FieldOf(PreLines[Len(PreLines)], "date")
    /\ call.query.dateStart # FieldOf(PreLines[1], "date")

(***************************************************************************)
(* C2: after a line-format get_articles / get_events run, the last line of *)
(* the output file is a valid resume point: it is a JSON object with the   *)
(* date field, and no record saved in the file has a later date.           *)
(***************************************************************************)
C2_LastLineIsResumePoint ==
    (/\ call.op \in {"get_articles", "get_events"}
     /\ call.save_to_file # NoPath
     /\ call.save_format # "array"
     /\ call.raised = ""
     /\ NowLines # <<>>) =>
        /\ HasField(NowLines[Len(NowLines)], DateField)
        /\ \A i \in 1..Len(NowLines) :
              HasField(NowLines[i], DateField) =>
                DateRank(FieldOf(NowLines[i], DateField).s)
                  <= DateRank(FieldOf(NowLines[Len(NowLines)], DateField).s)

(***************************************************************************)
(* C3: saving N serializable records in line format to an empty or absent  *)
(* file yields a file of exactly N lines, line i being the JSON encoding   *)
(* of record i (stated for N >= 1).                                        *)
(***************************************************************************)
C3_LineSaveWritesEveryRecord ==
    (/\ call.op = "save_result_in_file"
     /\ call.save_format # "array"
     /\ call.pre.data = <<>>
     /\ call.records # <<>>
     /\ \A i \in 1..Len(call.records) : Serializable(call.records[i])) =>
        /\ Now.exists
        /\ Len(NowLines) = Len(call.records)
        /\ \A i \in 1..Len(call.records) :
              /\ NowLines[i] = JsonDump(call.records[i]).out \o <<NEWLINE>>
              /\ JsonLoads(NowLines[i]) = [ok |-> TRUE, val |-> call.records[i]]

\* C3 for the saves that get as far as opening the target file
C3_WhenTargetOpened ==
    call.raised = "" => C3_LineSaveWritesEveryRecord

(***************************************************************************)
(* C4: in line-format saving a record whose serialization fails is skipped *)
(* without an error and without a partial line: the save appends exactly   *)
(* one complete line for each serializable record, in order.               *)
(***************************************************************************)
C4_FailedRecordLeavesNothing ==
    (/\ call.op = "save_result_in_file"
     /\ call.save_format # "array"
     /\ call.raised = ""
     /\ \E i \in 1..Len(call.records) : ~Serializable(call.records[i])) =>
        Now.data = call.pre.data \o LinesOf(SelectSeq(call.records, Serializable))

(***************************************************************************)
(* C5: a save never truncates or overwrites the target file: what the file *)
(* held before the save is a prefix of what it holds afterwards, in either *)
(* format, for any records, also when the save skips records or raises.    *)
(***************************************************************************)
C5_AppendOnly ==
    (call.op = "save_result_in_file" /\ call.pre.exists) =>
        Now.exists /\ IsPrefix(call.pre.data, Now.data)

\* an array save to a file that held text raised on an unserializable
\* record, after writing part of the array
C5_Witness ==
    /\ call.op = "save_result_in_file"
    /\ call.pre.exists
    /\ call.pre.data # <<>>
    /\ call.raised = "TypeError"
    /\ Len(Now.data) > Len(call.pre.data)

(***************************************************************************)
(* C6: for every target path (nested directories, an existing directory, a *)
(* bare file name), save_result_in_file makes sure the parent directory    *)
(* chain of the file exists before the file is opened, and does not raise  *)
(* while doing so.                                                         *)
(***************************************************************************)
C6_DirectoryEnsuredWithoutRaising ==
    call.op = "save_result_in_file" =>
        /\ call.raised \notin {"FileNotFoundError", "FileExistsError",
                               "NotADirectoryError"}
        /\ LET parent == Front(Normpath(call.save_to_file))
           IN  parent = <<>> \/ parent \in dirs

\* C6 for the targets that have a directory component
C6_WhenTargetHasDirectory ==
    Len(Normpath(call.save_to_file)) > 1 => C6_DirectoryEnsuredWithoutRaising

(***************************************************************************)
(* C7: an array-format save to a file that holds one valid JSON document   *)
(* leaves a file that is not one valid JSON document; an array-format save *)
(* of serializable records to an empty or absent file leaves exactly one   *)
(* valid JSON array of all the records, in order (stated for saves of at   *)
(* least one record).                                                      *)
(***************************************************************************)
C7_ArraySave ==
    (/\ call.op = "save_result_in_file"
     /\ call.save_format = "array"
     /\ call.records # <<>>) =>
        /\ (call.pre.exists /\ JsonLoads(call.pre.data).ok) =>
              ~JsonLoads(Now.data).ok
        /\ (/\ call.pre.data = <<>>
            /\ \A i \in 1..Len(call.records) : Serializable(call.records[i])) =>
              /\ Now.exists
              /\ JsonLoads(Now.data) = [ok |-> TRUE, val |-> PyList(call.records)]

\* C7 for the saves that get as far as opening the target file
C7_WhenTargetOpened ==
    call.raised \in {"", "TypeError"} => C7_ArraySave

(***************************************************************************)
(* C8, as stated: when get_articles or get_events is called with a save    *)
(* target that holds a JSON array written by an array-format run, the      *)
(* resume lookup raises nothing and the query is issued.                   *)
(***************************************************************************)
PreIsArray ==
    /\ call.pre.exists
    /\ JsonLoads(call.pre.data).ok
    /\ JsonLoads(call.pre.data).val.t = "list"

C8_ArrayFileResumeIsSilent ==
    (call.op \in {"get_articles", "get_events"} /\ PreIsArray) =>
        call.raised = "" /\ call.queried

(***************************************************************************)
(* C8, amended: in that case the resume lookup raises TypeError (the last  *)
(* line parses as a list, which is then indexed with the date field), no   *)
(* query is issued and the file is left as it was.                         *)
(***************************************************************************)
C8_ArrayFileResumeRaises ==
    (call.op \in {"get_articles", "get_events"} /\ PreIsArray) =>
        /\ call.raised = "TypeError"
        /\ ~call.queried
        /\ Now = call.pre

\* get_events found a non-empty array in its target file
C8_Witness ==
    /\ call.op = "get_events"
    /\ PreIsArray
    /\ JsonLoads(call.pre.data).val.items # <<>>
    /\ call.raised = "TypeError"

(***************************************************************************)
(* C9, as stated: when get_event_articles is called with a save target     *)
(* that is an existing non-empty file, the dateStart of its query is the   *)
(* date field of the last line of the file.                                *)
(***************************************************************************)
C9_EventArticlesResume ==
    (/\ call.op = "get_event_articles"
     /\ call.queried
     /\ call.pre.exists
     /\ PreLines # <<>>) =>
        /\ HasField(PreLines[Len(PreLines)], "date")
        /\ call.query.dateStart = FieldOf(PreLines[Len(PreLines)], "date")

(***************************************************************************)
(* C9, amended: get_event_articles makes no resume lookup; it always       *)
(* issues its query, and the dateStart of the query is the date_start the  *)
(* caller passed, whatever the target file holds.                          *)
(***************************************************************************)
C9_EventArticlesKeepDateStart ==
    call.op = "get_event_articles" =>
        call.queried /\ call.query.dateStart = call.date_start

\* get_event_articles queried from the caller's date_start although the
\* last line of its target file carries another date
C9_Witness ==
    /\ call.op = "get_event_articles"
    /\ call.queried
    /\ PreLines # <<>>
    /\ HasField(PreLines[Len(PreLines)], "date")
    /\ call.query.dateStart = call.date_start
    /\ call.date_start # FieldOf(PreLines[Len(PreLines)], "date")

(***************************************************************************)
(* C10: in the query of get_articles, get_events and get_event_articles    *)
(* every non-empty keywords, concepts or categories list is a conjunction  *)
(* ($and) of its items and every non-empty sources or languages list a     *)
(* disjunction ($or) of its items, the items in the caller's order.        *)
(***************************************************************************)
C10_ClauseOperators ==
    call.queried =>
        LET f == call.filters
            q == call.query
            is(clause, op, n) == clause.op = op /\ Len(clause.items) = n
        IN  /\ NonEmpty(f.keywords) =>
                  /\ is(q.keywords, "$and", Len(f.keywords.items))
                  /\ \A i \in 1..Len(f.keywords.items) :
                        q.keywords.items[i] = PyStr(f.keywords.items[i])
            /\ NonEmpty(f.concepts) =>
                  /\ is(q.conceptUri, "$and", Len(f.concepts.items))
                  /\ \A i \in 1..Len(f.concepts.items) :
                        q.conceptUri.items[i] = getConceptUri(f.concepts.items[i])
            /\ NonEmpty(f.categories) =>
                  /\ is(q.categoryUri, "$and", Len(f.categories.items))
                  /\ \A i \in 1..Len(f.categories.items) :
                        q.categoryUri.items[i] = getCategoryUri(f.categories.items[i])
            /\ NonEmpty(f.sources) =>
                  /\ is(q.sourceUri, "$or", Len(f.sources.items))
                  /\ \A i \in 1..Len(f.sources.items) :
                        q.sourceUri.items[i] = getSourceUri(f.sources.items[i])
            /\ NonEmpty(f.languages) =>
                  /\ is(q.lang, "$or", Len(f.languages.items))
                  /\ \A i \in 1..Len(f.languages.items) :
                        q.lang.items[i] = PyStr(f.languages.items[i])

\* a query with a conjunction and a disjunction side by side
C10_Witness ==
    /\ call.op = "get_event_articles"
    /\ call.queried
    /\ call.filters.categories.items = <<"obama">>
    /\ call.filters.languages.items = <<"zzz">>
    /\ call.query.categoryUri.op = "$and"
    /\ call.query.lang.op = "$or"

(***************************************************************************)
(* C11: for each of keywords, concepts, categories, sources and languages  *)
(* on its own, a list that is empty or was not passed puts no clause for   *)
(* that field into the query (the field is None) and makes no lookup call  *)
(* for that field; with all five empty or absent the query has no filter   *)
(* clause at all.                                                          *)
(***************************************************************************)
\* the list is the empty list, or no list was passed (None)
EmptyOrAbsent(l) == ~l.given \/ Len(l.items) = 0

LookupsOf(name) == SelectSeq(call.lookups, LAMBDA c : c[1] = name)

C11_EmptyListNoClause ==
    call.queried =>
        LET f == call.filters
            q == call.query
        IN  /\ EmptyOrAbsent(f.keywords) => q.keywords = NoClause
            /\ EmptyOrAbsent(f.concepts) =>
                  q.conceptUri = NoClause /\ LookupsOf("getConceptUri") = <<>>
            /\ EmptyOrAbsent(f.categories) =>
                  q.categoryUri = NoClause /\ LookupsOf("getCategoryUri") = <<>>
            /\ EmptyOrAbsent(f.sources) =>
                  q.sourceUri = NoClause /\ LookupsOf("getSourceUri") = <<>>
            /\ EmptyOrAbsent(f.languages) => q.lang = NoClause
            /\ (\A x \in {f.keywords, f.concepts, f.categories, f.sources,
                           f.languages} : EmptyOrAbsent(x)) =>
                  /\ call.lookups = <<>>
                  /\ \A c \in {q.keywords, q.conceptUri, q.categoryUri,
                                q.sourceUri, q.lang} : c = NoClause

\* a query built from an empty concepts list next to a non-empty sources
\* list: lookups for the sources only, no concept clause
C11_Witness ==
    /\ call.queried
    /\ call.filters.concepts = ListOf(<<>>)
    /\ call.filters.keywords = NoneList
    /\ NonEmpty(call.filters.sources)
    /\ call.query.conceptUri = NoClause
    /\ call.query.sourceUri # NoClause
    /\ call.lookups # <<>>
    /\ LookupsOf("getConceptUri") = <<>>

(***************************************************************************)
(* C12: exactly one lookup call is made for every concept, category and    *)
(* source label supplied (a repeated label is looked up again), in the     *)
(* order of the lists; the identifier at position i of a clause is what    *)
(* the lookup for label i answered, None included, and no error is raised. *)
(***************************************************************************)
C12_OneLookupPerLabel ==
    call.queried =>
        LET f == call.filters
            q == call.query
            labels(l) == IF EmptyOrAbsent(l) THEN <<>> ELSE l.items
            nc == Len(labels(f.concepts))
            ng == Len(labels(f.categories))
            ns == Len(labels(f.sources))
            made(name, l, clause, off) ==
                \A i \in 1..Len(labels(l)) :
                    /\ call.lookups[off + i][1] = name
                    /\ call.lookups[off + i][2] = l.items[i]
                    /\ clause.items[i] = call.lookups[off + i][3]
        IN  /\ call.raised = ""
            /\ Len(call.lookups) = nc + ng + ns
            /\ Len(q.conceptUri.items) = nc
            /\ Len(q.categoryUri.items) = ng
            /\ Len(q.sourceUri.items) = ns
            /\ made("getConceptUri", f.concepts, q.conceptUri, 0)
            /\ made("getCategoryUri", f.categories, q.categoryUri, nc)
            /\ made("getSourceUri", f.sources, q.sourceUri, nc + ng)

\* a label the service does not know, passed twice: two lookups, two None
\* identifiers in the clause, no error
C12_Witness ==
    /\ call.queried
    /\ call.raised = ""
    /\ call.filters.concepts = ListOf(<<"zzz", "zzz">>)
    /\ Len(call.lookups) = 2
    /\ call.lookups[1] = call.lookups[2]
    /\ call.query.conceptUri.items = <<PyNone, PyNone>>

(***************************************************************************)
(* C13: when a query operation is called with a save target and returns,   *)
(* the iterator it returns still goes through all the records that were    *)
(* retrieved (the records written to the file).                            *)
(***************************************************************************)
C13_ReturnedIteratorYieldsRecords ==
    (/\ call.op \in {"get_articles", "get_events", "get_event_articles"}
     /\ call.save_to_file # NoPath
     /\ call.queried
     /\ call.raised = "") =>
        Remaining(call.returned) = call.records

\* without a save target the returned iterator is untouched
C13_WithoutSaveTarget ==
    (/\ call.op \in {"get_articles", "get_events", "get_event_articles"}
     /\ call.save_to_file = NoPath
     /\ call.queried) =>
        Remaining(call.returned) = call.records

(***************************************************************************)
(* Properties of get_event_articles_from_file.                             *)
(***************************************************************************)
InBatch == call.op = "get_event_articles_from_file"

\* the lines of the identifiers file, as the operation found it
IdsFileLines == ReadLines(call.pre.data, 1, <<>>)

QueriesLogged == SelectSeq(call.batch.log, LAMBDA x : x.e = "query")

\* the log of a loop that has taken the first m events of ids one after
\* the other: the query of an event, then its save, then the next event
RECURSIVE SequentialLog(_, _, _)
SequentialLog(ids, m, saving) ==
    IF m = 0 THEN <<>>
    ELSE SequentialLog(ids, m - 1, saving)
           \o <<LogEntry("query", ids[m], "")>>
           \o (IF saving THEN <<LogEntry("save", ids[m], "")>> ELSE <<>>)

\* id is raw without the whitespace at its two ends
Pads == {"", " ", "\n", " \n"}

IsTrimOf(id, raw) ==
    /\ \E l \in Pads, r \in Pads : raw = l \o id \o r
    /\ Len(id) > 0 =>
          /\ SubSeq(id, 1, 1) \notin {" ", "\n"}
          /\ SubSeq(id, Len(id), Len(id)) \notin {" ", "\n"}

\* the text line l of the identifiers file gives the identifier in: the
\* uri field of the JSON object for an 'events' file, the line otherwise
RawIdentifier(l) ==
    IF call.batch.event_file_type = "events"
      THEN FieldOf(l, "uri").s
      ELSE LineText(l)

C15_MissingOrEmptyFileRaises ==
    (InBatch /\ (\/ call.batch.event_ids_file = NoPath
                 \/ ~call.pre.exists
                 \/ IdsFileLines = <<>>)) =>
        /\ call.raised # ""
        /\ call.batch.pc = "raised"
        /\ call.batch.log = <<>>
        /\ fs = call.batch.before.fs
        /\ dirs = call.batch.before.dirs

\* the operation raised on an identifiers file that exists and is empty
C15_Witness ==
    /\ InBatch
    /\ call.batch.event_ids_file # NoPath
    /\ call.pre.exists
    /\ call.pre.data = <<>>
    /\ call.save_to_file # NoPath
    /\ call.raised = "Exception"

(***************************************************************************)
(* C16: when the query or the save of the k-th identifier raises, the      *)
(* exception leaves the operation: no query is issued for an identifier    *)
(* after the k-th, no result list is returned, and the output files of the *)
(* identifiers before the k-th are as their saves left them.               *)
(***************************************************************************)
RaiseLogged == \E i \in 1..Len(call.batch.log) : call.batch.log[i].e = "raise"

\* the save whose file is not written again by a later save
LastSaveOf(j) ==
    \A i \in (j + 1)..Len(call.batch.saved) :
        call.batch.saved[i].path # call.batch.saved[j].path

C16_FailureAbortsBatch ==
    (InBatch /\ RaiseLogged) =>
        LET b == call.batch
            last == b.log[Len(b.log)]
        IN  /\ last.e = "raise"
            /\ \A i \in 1..(Len(b.log) - 1) : b.log[i].e # "raise"
            /\ call.raised = last.exc
            /\ b.pc = "raised"
            /\ Len(QueriesLogged) = b.done + 1
            /\ last.event_id = b.event_ids[b.done + 1]
            /\ Len(b.event_articles) = b.done
            /\ \A j \in 1..Len(b.saved) :
                  LastSaveOf(j) =>
                    /\ b.saved[j].path \in DOMAIN fs
                    /\ fs[b.saved[j].path] = b.saved[j].data

\* the save of the second identifier raised after the first identifier's
\* articles had been written to its file
C16_Witness ==
    /\ InBatch
    /\ call.raised # ""
    /\ call.batch.done = 1
    /\ Len(call.batch.event_ids) = 2
    /\ Len(call.batch.saved) = 1
    /\ call.batch.saved[1].data # <<>>
    /\ fs[call.batch.saved[1].path] = call.batch.saved[1].data
    /\ call.batch.log[Len(call.batch.log)].e = "raise"

UnusableLine(l) == ~JsonLoads(l).ok \/ ~HasField(l, "uri")

C18_InterruptEndsWithStatusZero ==
    call.op = "__main__" =>
        /\ (/\ call.cli.interrupts > 0
            /\ call.cli.at \in {"parse_args", "read_ids", "lookups", "resume",
                                "query", "open", "write", "try"}) =>
              /\ call.cli.pc = "exited"
              /\ call.cli.exit = 0
              /\ call.raised = ""
        /\ call.raised \notin {"", "KeyboardInterrupt"} =>
              /\ call.cli.pc = "exited"
              /\ call.cli.exit # 0

\* C18 for the interrupts that arrive inside the try block of the main
\* program and outside the try block of save_as_separate_line
C18_WhenMainHandlerIsReached ==
    call.cli.at \notin {"try", "argparser"} => C18_InterruptEndsWithStatusZero

====
